---- MODULE Spec2Model ----
(***************************************************************************)
(* Firmware-update lifecycle controller of the LED strip firmware:         *)
(* the OTA session task (ota_manager.c: ota_task), its image-header gate   *)
(* (ota_validate_image_header), the OTA event handler that drives the      *)
(* status LED (ota_event_handler) and the place where app_main creates the *)
(* OTA task (led_strip_custom.c).                                          *)
(*                                                                         *)
(* The esp_https_ota library, the flash and the network are outside the    *)
(* repository: every call into them returns a result drawn from the set of *)
(* results the caller distinguishes.                                       *)
(***************************************************************************)
EXTENDS Integers, Sequences, FiniteSets, TLC

(***************************************************************************)
(* Bounds of the model.                                                    *)
(***************************************************************************)
\* task slots the scheduler offers to xTaskCreate for OTA tasks
MaxTasks == 2
\* calls of esp_https_ota_perform that may answer IN_PROGRESS in one session
MaxChunks == 2
\* sizeof(esp_app_desc_t.version), scaled down (32 in ESP-IDF)
VersionLen == 2
\* WRITE_FLASH events of one download that the pulse of the strip is followed for
MaxWrites == 12
\* largest secure_version / eFuse secure version considered
MaxSecureVersion == 1
\* events the WiFi driver posts in one boot, after WIFI_EVENT_STA_START
MaxWifiEvents == 8
\* boots of the device that are followed
MaxBoots == 2

\* wifi_manager.c: #define MAXIMUM_RETRY 5
MAXIMUM_RETRY == 5

Tasks == 1..MaxTasks
Bytes == {0, 1}
Versions == [1..VersionLen -> Bytes]
SecureVersions == 0..MaxSecureVersion

(***************************************************************************)
(* esp_err_t values the code distinguishes.                                *)
(***************************************************************************)
ESP_OK == "ESP_OK"
ESP_FAIL == "ESP_FAIL"
ESP_ERR_INVALID_ARG == "ESP_ERR_INVALID_ARG"
ESP_ERR_HTTPS_OTA_IN_PROGRESS == "ESP_ERR_HTTPS_OTA_IN_PROGRESS"
ESP_ERR_OTA_VALIDATE_FAILED == "ESP_ERR_OTA_VALIDATE_FAILED"
NULL == "NULL"

(***************************************************************************)
(* led_control.h: the RGB triples of the four status colours.              *)
(***************************************************************************)
BLUE_R == 184
BLUE_G == 179
BLUE_B == 44
RED_R == 184
RED_G == 44
RED_B == 181
GREEN_R == 0
GREEN_G == 245
GREEN_B == 210
ORANGE_R == 0
ORANGE_G == 245
ORANGE_B == 210
LedOff == <<0, 0, 0>>

\* led_set_all(r, g, b): every pixel gets the triple, then the strip is refreshed
led_set_all(r, g, b) == <<r, g, b>>
led_set_color_blue == led_set_all(BLUE_R, BLUE_G, BLUE_B)
led_set_color_red == led_set_all(RED_R, RED_G, RED_B)
led_set_color_green == led_set_all(GREEN_R, GREEN_G, GREEN_B)
led_set_color_orange == led_set_all(ORANGE_R, ORANGE_G, ORANGE_B)
\* led_clear(): led_strip_clear + refresh
led_clear == LedOff

VARIABLES
    config,                 \* build configuration (sdkconfig / commented-in code)
    running_version,        \* version stored in the running partition's descriptor
    hw_sec_version,         \* esp_efuse_read_secure_version()
    boot_partition,         \* image the boot loader starts next: "running" | "update"
    system,                 \* "running" | "restarted" (esp_restart was called)
    app_main_pc,            \* position of app_main
    pc,                     \* pc[t]: position of OTA task t
    err,                    \* err[t]: local `err` of ota_task
    ota_finish_err,         \* ota_finish_err[t]: local of ota_task
    https_ota_handle,       \* https_ota_handle[t]: NULL | "open" | "released"
    app_desc,               \* app_desc[t]: descriptor read from the remote image
    image_len_read,         \* chunks the library has written for task t's session
    calls,                  \* calls[t]: the calls task t has made, <<function, result>>
    ota_flash_write_count,  \* static int ota_flash_write_count
    led,                    \* the triple the strip shows
    event_queue,            \* ESP_HTTPS_OTA_EVENT events posted and not yet handled
    s_retry_num,            \* static int s_retry_num
    wifi_connected_bit,     \* WIFI_CONNECTED_BIT of s_wifi_event_group
    wifi_state,             \* ConnectionState: the branch event_handler took last
    wifi_link,              \* the driver's link: "idle" | "connecting" | "associated" | "got_ip"
    wifi_event_queue,       \* WIFI_EVENT / IP_EVENT events posted and not yet handled
    wifi_events_posted,     \* events the driver has posted in this boot
    connect_attempts,       \* calls of esp_wifi_connect in this boot
    wifi_failures,          \* times event_handler took its "Fallo al conectar" branch
    disconnects_since_ip,   \* disconnect events handled since start / the last GOT_IP
    reconnects_since_ip,    \* esp_wifi_connect calls answering a disconnect since then
    wifi_handler_pc,        \* event_handler: "idle", or "signalled" between
                            \* xEventGroupSetBits and led_set_color_green
    ota_state,              \* persisted esp_ota_img_states_t of the running partition
    boots,                  \* boots of the device so far
    guard,                  \* what the rollback guard of app_main did in this boot
    blink_pc                \* led_strip_task: "none", or the colour blink_led sets next

deviceVars == <<config, running_version, hw_sec_version>>
wifiVars == <<s_retry_num, wifi_connected_bit, wifi_state, wifi_link, wifi_event_queue,
              wifi_events_posted, connect_attempts, wifi_failures, disconnects_since_ip,
              reconnects_since_ip, wifi_handler_pc>>
bootVars == <<ota_state, boots, guard>>
taskVars == <<pc, err, ota_finish_err, https_ota_handle, app_desc, image_len_read, calls>>
vars == <<config, running_version, hw_sec_version, boot_partition, system, app_main_pc,
          pc, err, ota_finish_err, https_ota_handle, app_desc, image_len_read, calls,
          ota_flash_write_count, led, event_queue,
          s_retry_num, wifi_connected_bit, wifi_state, wifi_link, wifi_event_queue,
          wifi_events_posted, connect_attempts, wifi_failures, disconnects_since_ip,
          reconnects_since_ip, wifi_handler_pc, ota_state, boots, guard, blink_pc>>

\* the version of the image in the running partition: "1" padded with NULs
InstalledVersion == [i \in 1..VersionLen |-> IF i = 1 THEN 1 ELSE 0]

\* esp_app_desc_t app_desc = {}
EmptyDesc == [version |-> [i \in 1..VersionLen |-> 0], secure_version |-> 0]
Descriptors == [version : Versions, secure_version : SecureVersions]

(***************************************************************************)
(* Pure helpers.                                                           *)
(***************************************************************************)
\* memcmp(a, b, n): 0 when the first n bytes agree, else the sign of the first
\* differing byte pair
RECURSIVE memcmp_from(_, _, _, _)
memcmp_from(a, b, i, n) ==
    IF i > n THEN 0
    ELSE IF a[i] # b[i] THEN (IF a[i] < b[i] THEN -1 ELSE 1)
    ELSE memcmp_from(a, b, i + 1, n)

memcmp(a, b, n) == memcmp_from(a, b, 1, n)

\* a NULL esp_app_desc_t pointer
NullDesc == [version |-> << >>, secure_version |-> 0]

\* the anti-rollback comparison compiled under the version check's #ifndef
validate_mutant_rollback_skipped(cfg, new_app_info, running_app_info, efuse) ==
    IF new_app_info = NullDesc THEN ESP_ERR_INVALID_ARG
    ELSE IF ~cfg.SKIP_VERSION_CHECK
            /\ memcmp(new_app_info.version, running_app_info.version, VersionLen) = 0
        THEN ESP_FAIL
    ELSE IF cfg.ANTI_ROLLBACK /\ ~cfg.SKIP_VERSION_CHECK
            /\ new_app_info.secure_version < efuse
        THEN ESP_FAIL
    ELSE ESP_OK

\* ota_validate_image_header, given what esp_ota_get_partition_description left
\* in running_app_info and what esp_efuse_read_secure_version returned
ota_validate_image_header(cfg, new_app_info, running_app_info, efuse) ==
    IF new_app_info = NullDesc THEN ESP_ERR_INVALID_ARG
    ELSE IF ~cfg.SKIP_VERSION_CHECK
            /\ memcmp(new_app_info.version, running_app_info.version, VersionLen) = 0
        THEN ESP_FAIL
    ELSE IF cfg.ANTI_ROLLBACK /\ new_app_info.secure_version < efuse
        THEN ESP_FAIL
    ELSE ESP_OK

Call(t, fn, ret) == Append(calls[t], <<fn, ret>>)
Call2(t, fn1, ret1, fn2, ret2) == calls[t] \o << <<fn1, ret1>>, <<fn2, ret2>> >>
Post(q, t, ids) == q \o [i \in 1..Len(ids) |-> [id |-> ids[i], task |-> t]]

\* esp_ota_img_states_t
RollbackStates == {"New", "PendingVerify", "Valid", "Invalid", "Aborted", "Undefined"}
NoGuard == [read |-> "none", state |-> "none", confirm_calls |-> 0, confirm_result |-> "none"]

\* the WiFi and boot state in which app_main reaches the creation of its tasks
\* when the first connect attempt succeeded and the image was already valid
ConnectedBoot ==
    /\ s_retry_num = 0
    /\ wifi_connected_bit = TRUE
    /\ wifi_state = "Connected"
    /\ wifi_link = "got_ip"
    /\ wifi_event_queue = << >>
    /\ wifi_events_posted = 2
    /\ connect_attempts = 1
    /\ wifi_failures = 0
    /\ disconnects_since_ip = 0
    /\ reconnects_since_ip = 0
    /\ wifi_handler_pc = "idle"
    /\ ota_state = "Valid"
    /\ boots = 1
    /\ guard = [read |-> ESP_OK, state |-> "Valid", confirm_calls |-> 0,
                confirm_result |-> "none"]

(***************************************************************************)
(* Initial state: the device has booted, app_main is about to create its   *)
(* tasks and no OTA task exists.                                           *)
(***************************************************************************)
Init ==
    /\ config \in [SKIP_VERSION_CHECK : BOOLEAN, ANTI_ROLLBACK : BOOLEAN,
                   OTA_TASK : BOOLEAN, ROLLBACK_ENABLE : {TRUE}]
    /\ running_version = InstalledVersion
    /\ hw_sec_version \in SecureVersions
    /\ boot_partition = "running"
    /\ system = "running"
    /\ app_main_pc = "create_tasks"
    /\ pc = [t \in Tasks |-> "none"]
    /\ err = [t \in Tasks |-> ESP_OK]
    /\ ota_finish_err = [t \in Tasks |-> ESP_OK]
    /\ https_ota_handle = [t \in Tasks |-> NULL]
    /\ app_desc = [t \in Tasks |-> EmptyDesc]
    /\ image_len_read = [t \in Tasks |-> 0]
    /\ calls = [t \in Tasks |-> << >>]
    /\ ota_flash_write_count = 0
    /\ led = LedOff
    /\ event_queue = << >>
    /\ blink_pc = "none"
    /\ ConnectedBoot


(***************************************************************************)
(* app_main: creation of the tasks.  The xTaskCreate of the OTA task is    *)
(* the only place an OTA task is created; it is compiled in or commented   *)
(* out (config.OTA_TASK).  It takes the first free task slot; with no free *)
(* slot xTaskCreate fails and no task is created.                          *)
(***************************************************************************)
FreeSlots == {t \in Tasks : pc[t] = "none"}

CreateTasks(next_pc) ==
    /\ system = "running"
    /\ app_main_pc = "create_tasks"
    /\ app_main_pc' = next_pc
    /\ blink_pc' = "red"
    /\ IF config.OTA_TASK /\ FreeSlots # {}
         THEN LET t == CHOOSE x \in FreeSlots : \A y \in FreeSlots : x <= y
              IN pc' = [pc EXCEPT ![t] = "entry"]
         ELSE UNCHANGED pc
    /\ UNCHANGED <<deviceVars, wifiVars, bootVars, boot_partition, system, err, ota_finish_err,
                   https_ota_handle, app_desc, image_len_read, calls,
                   ota_flash_write_count, led, event_queue>>

\* the creation left in a loop (a periodic trigger with no session guard)
app_main_create_tasks_mutant_repeated == CreateTasks("create_tasks")

app_main_create_tasks == CreateTasks("returned")

(***************************************************************************)
(* ota_task, one action per blocking call.                                 *)
(***************************************************************************)
Running(t, at) == system = "running" /\ pc[t] = at

\* vTaskDelay(pdMS_TO_TICKS(10000)) and the set-up of the locals
ota_task_entry(t) ==
    /\ Running(t, "entry")
    /\ pc' = [pc EXCEPT ![t] = "begin"]
    /\ err' = [err EXCEPT ![t] = ESP_OK]
    /\ ota_finish_err' = [ota_finish_err EXCEPT ![t] = ESP_OK]
    /\ https_ota_handle' = [https_ota_handle EXCEPT ![t] = NULL]
    /\ calls' = [calls EXCEPT ![t] = Call(t, "vTaskDelay", "10000 ms")]
    /\ UNCHANGED <<deviceVars, wifiVars, bootVars, blink_pc, boot_partition, system, app_main_pc, app_desc,
                   image_len_read, ota_flash_write_count, led, event_queue>>

\* err = esp_https_ota_begin(&ota_config, &https_ota_handle)
ota_task_begin(t) ==
    /\ Running(t, "begin")
    /\ \E r \in {ESP_OK, ESP_FAIL} :
        /\ err' = [err EXCEPT ![t] = r]
        /\ https_ota_handle' =
               [https_ota_handle EXCEPT ![t] = IF r = ESP_OK THEN "open" ELSE NULL]
        /\ calls' = [calls EXCEPT ![t] = Call(t, "esp_https_ota_begin", r)]
        /\ event_queue' = Post(event_queue, t,
               IF r = ESP_OK THEN <<"ESP_HTTPS_OTA_START", "ESP_HTTPS_OTA_CONNECTED">>
                             ELSE <<"ESP_HTTPS_OTA_START">>)
        /\ pc' = [pc EXCEPT ![t] = IF r = ESP_OK THEN "get_img_desc" ELSE "begin_failed"]
    /\ image_len_read' = [image_len_read EXCEPT ![t] = 0]
    /\ UNCHANGED <<deviceVars, wifiVars, bootVars, blink_pc, boot_partition, system, app_main_pc, ota_finish_err,
                   app_desc, ota_flash_write_count, led>>

\* begin failed: led_set_color_red(); vTaskDelete(NULL)
BeginFailed(t, colour, colour_call, exit) ==
    /\ Running(t, "begin_failed")
    /\ led' = colour
    /\ calls' = [calls EXCEPT ![t] =
           IF exit = "deleted" THEN Call2(t, colour_call, "void", "vTaskDelete", "void")
                               ELSE Call(t, colour_call, "void")]
    /\ pc' = [pc EXCEPT ![t] = exit]
    /\ UNCHANGED <<deviceVars, wifiVars, bootVars, blink_pc, boot_partition, system, app_main_pc, err, ota_finish_err,
                   https_ota_handle, app_desc, image_len_read, ota_flash_write_count,
                   event_queue>>

\* the begin failure reported with the in-progress colour
ota_task_begin_failed_mutant_blue(t) ==
    BeginFailed(t, led_set_color_blue, "led_set_color_blue", "deleted")

\* the begin failure sent to the common exit, which aborts the session
ota_task_begin_failed_mutant_goto_ota_end(t) ==
    BeginFailed(t, led_set_color_red, "led_set_color_red", "ota_end")

ota_task_begin_failed(t) ==
    BeginFailed(t, led_set_color_red, "led_set_color_red", "deleted")

\* app_desc = {}; err = esp_https_ota_get_img_desc(https_ota_handle, &app_desc)
GetImgDesc(t, on_error) ==
    /\ Running(t, "get_img_desc")
    /\ \E r \in {ESP_OK, ESP_FAIL} :
        /\ err' = [err EXCEPT ![t] = r]
        /\ calls' = [calls EXCEPT ![t] = Call(t, "esp_https_ota_get_img_desc", r)]
        /\ IF r = ESP_OK
             THEN /\ \E d \in Descriptors : app_desc' = [app_desc EXCEPT ![t] = d]
                  /\ event_queue' = Post(event_queue, t, <<"ESP_HTTPS_OTA_GET_IMG_DESC">>)
                  /\ pc' = [pc EXCEPT ![t] = "validate"]
             ELSE /\ app_desc' = [app_desc EXCEPT ![t] = EmptyDesc]
                  /\ UNCHANGED event_queue
                  /\ pc' = [pc EXCEPT ![t] = on_error]
    /\ UNCHANGED <<deviceVars, wifiVars, bootVars, blink_pc, boot_partition, system, app_main_pc, ota_finish_err,
                   https_ota_handle, image_len_read, ota_flash_write_count, led>>

\* the descriptor failure leaving through the exit of the finish failure
ota_task_get_img_desc_mutant_no_abort(t) == GetImgDesc(t, "finish_failed")

ota_task_get_img_desc(t) == GetImgDesc(t, "ota_end")

\* validate_image_header(new_app_info) of led_strip_custom.c; running_app_info
\* is what the version comparison reads, efuse what
\* esp_efuse_read_secure_version returns
validate_image_header(cfg, new_app_info, running_app_info, efuse) ==
    IF new_app_info = NullDesc THEN ESP_ERR_INVALID_ARG
    ELSE IF ~cfg.SKIP_VERSION_CHECK
            /\ memcmp(new_app_info.version, running_app_info.version, VersionLen) = 0
      THEN ESP_FAIL
    ELSE IF cfg.ANTI_ROLLBACK /\ new_app_info.secure_version < efuse THEN ESP_FAIL
    ELSE ESP_OK

\* err = ota_validate_image_header(&app_desc) in ota_task and
\* err = validate_image_header(&app_desc) in advanced_ota_task.  When
\* esp_ota_get_partition_description fails, running_app_info is left
\* uninitialised and the comparison reads whatever the stack holds.
Validate(t, on_ok, on_error, validate_call_name) ==
    /\ Running(t, "validate")
    /\ \E read_ok \in BOOLEAN, stack \in Versions :
        LET running_app_info ==
                [version |-> IF read_ok THEN running_version ELSE stack]
            r == IF validate_call_name = "validate_image_header"
                   THEN validate_image_header(config, app_desc[t], running_app_info,
                                              hw_sec_version)
                   ELSE ota_validate_image_header(config, app_desc[t], running_app_info,
                                                  hw_sec_version)
        IN /\ (read_ok => stack = running_version)
           /\ err' = [err EXCEPT ![t] = r]
           /\ calls' = [calls EXCEPT ![t] = Call(t, validate_call_name, r)]
           /\ pc' = [pc EXCEPT ![t] = IF r = ESP_OK THEN on_ok ELSE on_error]
    /\ UNCHANGED <<deviceVars, wifiVars, bootVars, blink_pc, boot_partition, system, app_main_pc, ota_finish_err,
                   https_ota_handle, app_desc, image_len_read, ota_flash_write_count,
                   led, event_queue>>

\* the validation result logged and not acted on
ota_task_validate_mutant_ignored(t) ==
    Validate(t, "perform", "perform", "ota_validate_image_header")

ota_task_validate(t) ==
    Validate(t, "perform", "ota_end", "ota_validate_image_header")

\* one turn of the while (1) loop: err = esp_https_ota_perform(handle); on
\* IN_PROGRESS the library has written one more chunk and the loop reads
\* esp_https_ota_get_image_len_read
ota_task_perform(t) ==
    /\ Running(t, "perform")
    /\ \E r \in {ESP_ERR_HTTPS_OTA_IN_PROGRESS, ESP_OK, ESP_FAIL} :
        /\ (r = ESP_ERR_HTTPS_OTA_IN_PROGRESS) => image_len_read[t] < MaxChunks
        /\ err' = [err EXCEPT ![t] = r]
        /\ LET first == \A i \in 1..Len(calls[t]) : calls[t][i][1] # "esp_https_ota_perform"
               chip == IF first THEN <<"ESP_HTTPS_OTA_VERIFY_CHIP_ID">> ELSE << >>
           IN IF r = ESP_ERR_HTTPS_OTA_IN_PROGRESS
                THEN /\ image_len_read' = [image_len_read EXCEPT ![t] = @ + 1]
                     /\ event_queue' = Post(event_queue, t,
                                            chip \o <<"ESP_HTTPS_OTA_WRITE_FLASH">>)
                     /\ calls' = [calls EXCEPT ![t] =
                            Call2(t, "esp_https_ota_perform", r,
                                  "esp_https_ota_get_image_len_read", "len")]
                     /\ UNCHANGED pc
                ELSE /\ UNCHANGED image_len_read
                     /\ event_queue' = Post(event_queue, t, chip)
                     /\ calls' = [calls EXCEPT ![t] = Call(t, "esp_https_ota_perform", r)]
                     /\ pc' = [pc EXCEPT ![t] = "is_complete"]
    /\ UNCHANGED <<deviceVars, wifiVars, bootVars, blink_pc, boot_partition, system, app_main_pc, ota_finish_err,
                   https_ota_handle, app_desc, ota_flash_write_count, led>>

\* if (esp_https_ota_is_complete_data_received(handle) != true) { red } else ...
IsComplete(t, when_incomplete, colour, colour_call) ==
    /\ Running(t, "is_complete")
    /\ \E complete \in BOOLEAN :
        IF complete
          THEN /\ calls' = [calls EXCEPT ![t] =
                      Call(t, "esp_https_ota_is_complete_data_received", "true")]
               /\ pc' = [pc EXCEPT ![t] = "finish"]
               /\ UNCHANGED led
          ELSE /\ calls' = [calls EXCEPT ![t] =
                      Call2(t, "esp_https_ota_is_complete_data_received", "false",
                            colour_call, "void")]
               /\ pc' = [pc EXCEPT ![t] = when_incomplete]
               /\ led' = colour
    /\ UNCHANGED <<deviceVars, wifiVars, bootVars, blink_pc, boot_partition, system, app_main_pc, err, ota_finish_err,
                   https_ota_handle, app_desc, image_len_read, ota_flash_write_count,
                   event_queue>>

\* the completeness check logged and not acted on
ota_task_is_complete_mutant_ignored(t) ==
    IsComplete(t, "finish", led_set_color_red, "led_set_color_red")

\* an incomplete transfer sent back into the transfer loop
ota_task_is_complete_mutant_retries(t) ==
    IsComplete(t, "perform", led_set_color_red, "led_set_color_red")

ota_task_is_complete(t) ==
    IsComplete(t, "ota_end", led_set_color_red, "led_set_color_red")

\* ota_finish_err = esp_https_ota_finish(handle): the library validates the
\* whole image and, on ESP_OK, has marked it bootable; the handle is released
\* whatever the result.  Then the test (err == ESP_OK) && (ota_finish_err == ESP_OK).
Finish(t, transfer_ok) ==
    /\ Running(t, "finish")
    /\ \E f \in {ESP_OK, ESP_ERR_OTA_VALIDATE_FAILED, ESP_FAIL} :
        /\ ota_finish_err' = [ota_finish_err EXCEPT ![t] = f]
        /\ calls' = [calls EXCEPT ![t] = Call(t, "esp_https_ota_finish", f)]
        /\ boot_partition' = IF f = ESP_OK THEN "update" ELSE boot_partition
        /\ event_queue' = Post(event_queue, t,
               IF f = ESP_OK THEN <<"ESP_HTTPS_OTA_FINISH">> ELSE << >>)
        /\ pc' = [pc EXCEPT ![t] =
               IF transfer_ok /\ f = ESP_OK THEN "success" ELSE "finish_failed"]
    /\ https_ota_handle' = [https_ota_handle EXCEPT ![t] = "released"]
    /\ UNCHANGED <<deviceVars, wifiVars, bootVars, blink_pc, system, app_main_pc, err, app_desc, image_len_read,
                   ota_flash_write_count, led>>

\* the success test reduced to ota_finish_err == ESP_OK
ota_task_finish_mutant_err_unchecked(t) == Finish(t, TRUE)

ota_task_finish(t) == Finish(t, err[t] = ESP_OK)

\* led_set_color_green(); vTaskDelay(pdMS_TO_TICKS(2000))
Success(t, dwell, colour, colour_call) ==
    /\ Running(t, "success")
    /\ led' = colour
    /\ calls' = [calls EXCEPT ![t] =
           IF dwell THEN Call2(t, colour_call, "void", "vTaskDelay", "2000 ms")
                    ELSE Call(t, colour_call, "void")]
    /\ pc' = [pc EXCEPT ![t] = "restart"]
    /\ UNCHANGED <<deviceVars, wifiVars, bootVars, blink_pc, boot_partition, system, app_main_pc, err, ota_finish_err,
                   https_ota_handle, app_desc, image_len_read, ota_flash_write_count,
                   event_queue>>

\* green requested and the restart taken without the dwell
ota_task_success_mutant_no_dwell(t) ==
    Success(t, FALSE, led_set_color_green, "led_set_color_green")

ota_task_success(t) == Success(t, TRUE, led_set_color_green, "led_set_color_green")

\* esp_restart(): does not return, every task stops
ota_task_restart(t) ==
    /\ Running(t, "restart")
    /\ system' = "restarted"
    /\ calls' = [calls EXCEPT ![t] = Call(t, "esp_restart", "void")]
    /\ pc' = [pc EXCEPT ![t] = "restarted"]
    /\ UNCHANGED <<deviceVars, wifiVars, bootVars, blink_pc, boot_partition, app_main_pc, err, ota_finish_err,
                   https_ota_handle, app_desc, image_len_read, ota_flash_write_count,
                   led, event_queue>>

\* else branch of the success test: led_set_color_red(); vTaskDelete(NULL)
FinishFailed(t, deleted, colour, colour_call) ==
    /\ Running(t, "finish_failed")
    /\ led' = colour
    /\ calls' = [calls EXCEPT ![t] =
           IF deleted THEN Call2(t, colour_call, "void", "vTaskDelete", "void")
                      ELSE Call(t, colour_call, "void")]
    /\ pc' = [pc EXCEPT ![t] = IF deleted THEN "deleted" ELSE "ota_end"]
    /\ UNCHANGED <<deviceVars, wifiVars, bootVars, blink_pc, boot_partition, system, app_main_pc, err, ota_finish_err,
                   https_ota_handle, app_desc, image_len_read, ota_flash_write_count,
                   event_queue>>

\* the vTaskDelete of the else branch missing: control falls into ota_end
ota_task_finish_failed_mutant_falls_through(t) ==
    FinishFailed(t, FALSE, led_set_color_red, "led_set_color_red")

ota_task_finish_failed(t) ==
    FinishFailed(t, TRUE, led_set_color_red, "led_set_color_red")

\* ota_end: esp_https_ota_abort(https_ota_handle)
ota_task_ota_end(t) ==
    /\ Running(t, "ota_end")
    /\ calls' = [calls EXCEPT ![t] = Call(t, "esp_https_ota_abort", https_ota_handle[t])]
    /\ https_ota_handle' = [https_ota_handle EXCEPT ![t] =
           IF @ = "open" THEN "released" ELSE "double_release"]
    /\ event_queue' = Post(event_queue, t, <<"ESP_HTTPS_OTA_ABORT">>)
    /\ pc' = [pc EXCEPT ![t] = "ota_end_report"]
    /\ UNCHANGED <<deviceVars, wifiVars, bootVars, blink_pc, boot_partition, system, app_main_pc, err, ota_finish_err,
                   app_desc, image_len_read, ota_flash_write_count, led>>

\* ota_end, after the abort: led_set_color_red(); vTaskDelete(NULL)
OtaEndReport(t, colour, colour_call) ==
    /\ Running(t, "ota_end_report")
    /\ led' = colour
    /\ calls' = [calls EXCEPT ![t] = Call2(t, colour_call, "void", "vTaskDelete", "void")]
    /\ pc' = [pc EXCEPT ![t] = "deleted"]
    /\ UNCHANGED <<deviceVars, wifiVars, bootVars, blink_pc, boot_partition, system, app_main_pc, err, ota_finish_err,
                   https_ota_handle, app_desc, image_len_read, ota_flash_write_count,
                   event_queue>>

ota_task_ota_end_report(t) == OtaEndReport(t, led_set_color_red, "led_set_color_red")

(***************************************************************************)
(* led_strip_task: while (1) blink_led(), which sets red, blue and green   *)
(* in turn and sleeps five seconds after each.                             *)
(***************************************************************************)
BlinkColour(colour) ==
    CASE colour = "red" -> led_set_color_red
      [] colour = "blue" -> led_set_color_blue
      [] colour = "green" -> led_set_color_green

BlinkNext(colour) ==
    CASE colour = "red" -> "blue"
      [] colour = "blue" -> "green"
      [] colour = "green" -> "red"

led_strip_task ==
    /\ system = "running"
    /\ blink_pc # "none"
    /\ led' = BlinkColour(blink_pc)
    /\ blink_pc' = BlinkNext(blink_pc)
    /\ UNCHANGED <<deviceVars, wifiVars, bootVars, boot_partition, system, app_main_pc, taskVars,
                   ota_flash_write_count, event_queue>>

(***************************************************************************)
(* ota_event_handler: runs in the event-loop task, one posted event per    *)
(* run, in posting order.                                                  *)
(***************************************************************************)
\* a handler that starts the count again when the session is aborted
HandlerCount_mutant_reset_on_abort(id, count) ==
    CASE id \in {"ESP_HTTPS_OTA_START", "ESP_HTTPS_OTA_ABORT"} -> 0
      [] id = "ESP_HTTPS_OTA_WRITE_FLASH" -> count + 1
      [] OTHER -> count

\* ota_flash_write_count after the handler has run for event id
HandlerCount(id, count) ==
    CASE id = "ESP_HTTPS_OTA_START" -> 0
      [] id = "ESP_HTTPS_OTA_WRITE_FLASH" -> count + 1
      [] OTHER -> count

\* a handler that tests the counter before incrementing it
HandlerLed_mutant_stale_count(id, count, shown) ==
    CASE id = "ESP_HTTPS_OTA_START" -> led_set_color_blue
      [] id = "ESP_HTTPS_OTA_WRITE_FLASH" ->
            IF count % 10 = 0 THEN led_set_color_blue
            ELSE IF count % 10 = 5 THEN led_clear
            ELSE shown
      [] id = "ESP_HTTPS_OTA_FINISH" -> led_set_color_green
      [] id = "ESP_HTTPS_OTA_ABORT" -> led_set_color_red
      [] OTHER -> shown

\* the strip after the handler has run for event id (count: the value before)
HandlerLed(id, count, shown) ==
    CASE id = "ESP_HTTPS_OTA_START" -> led_set_color_blue
      [] id = "ESP_HTTPS_OTA_WRITE_FLASH" ->
            IF (count + 1) % 10 = 0 THEN led_set_color_blue
            ELSE IF (count + 1) % 10 = 5 THEN led_clear
            ELSE shown
      [] id = "ESP_HTTPS_OTA_FINISH" -> led_set_color_green
      [] id = "ESP_HTTPS_OTA_ABORT" -> led_set_color_red
      [] OTHER -> shown

ota_event_handler ==
    /\ system = "running"
    /\ event_queue # << >>
    /\ LET e == Head(event_queue)
       IN /\ ota_flash_write_count' = HandlerCount(e.id, ota_flash_write_count)
          /\ led' = HandlerLed(e.id, ota_flash_write_count, led)
    /\ event_queue' = Tail(event_queue)
    /\ UNCHANGED <<deviceVars, wifiVars, bootVars, blink_pc, boot_partition, system, app_main_pc, taskVars>>

Next ==
    \/ app_main_create_tasks
    \/ led_strip_task
    \/ ota_event_handler
    \/ \E t \in Tasks :
        \/ ota_task_entry(t)
        \/ ota_task_begin(t)
        \/ ota_task_begin_failed(t)
        \/ ota_task_get_img_desc(t)
        \/ ota_task_validate(t)
        \/ ota_task_perform(t)
        \/ ota_task_is_complete(t)
        \/ ota_task_finish(t)
        \/ ota_task_success(t)
        \/ ota_task_restart(t)
        \/ ota_task_finish_failed(t)
        \/ ota_task_ota_end(t)
        \/ ota_task_ota_end_report(t)

Spec == Init /\ [][Next]_vars

\* any step of the OTA task t
TaskStep(t) ==
    \/ ota_task_entry(t)
    \/ ota_task_begin(t)
    \/ ota_task_begin_failed(t)
    \/ ota_task_get_img_desc(t)
    \/ ota_task_validate(t)
    \/ ota_task_perform(t)
    \/ ota_task_is_complete(t)
    \/ ota_task_finish(t)
    \/ ota_task_success(t)
    \/ ota_task_restart(t)
    \/ ota_task_finish_failed(t)
    \/ ota_task_ota_end(t)
    \/ ota_task_ota_end_report(t)

\* every call of the task returns and the scheduler runs a task that is ready
\* a build that creates the OTA task, on a device whose eFuse version is 0
LiveInit ==
    /\ Init
    /\ config.OTA_TASK
    /\ ~config.ANTI_ROLLBACK
    /\ hw_sec_version = 0

LiveSpec ==
    /\ LiveInit
    /\ [][Next]_vars
    /\ \A t \in Tasks : WF_vars(TaskStep(t))

(***************************************************************************)
(* ota_event_handler over a long download: the esp_https_ota library posts *)
(* its events, one WRITE_FLASH per block written, and the event loop runs   *)
(* the handler for each in posting order.                                  *)
(***************************************************************************)
OtaEvents == {"ESP_HTTPS_OTA_START", "ESP_HTTPS_OTA_CONNECTED", "ESP_HTTPS_OTA_GET_IMG_DESC",
              "ESP_HTTPS_OTA_VERIFY_CHIP_ID", "ESP_HTTPS_OTA_WRITE_FLASH",
              "ESP_HTTPS_OTA_UPDATE_BOOT_PARTITION", "ESP_HTTPS_OTA_FINISH",
              "ESP_HTTPS_OTA_ABORT"}

QueuedWrites ==
    Cardinality({i \in 1..Len(event_queue) : event_queue[i].id = "ESP_HTTPS_OTA_WRITE_FLASH"})

PulseInit ==
    /\ Init
    /\ config = [SKIP_VERSION_CHECK |-> FALSE, ANTI_ROLLBACK |-> FALSE,
                 OTA_TASK |-> FALSE, ROLLBACK_ENABLE |-> TRUE]
    /\ hw_sec_version = 0

ota_library_post ==
    /\ system = "running"
    /\ Len(event_queue) < 2
    /\ \E id \in OtaEvents :
        /\ (id = "ESP_HTTPS_OTA_WRITE_FLASH")
              => ota_flash_write_count + QueuedWrites < MaxWrites
        /\ event_queue' = Post(event_queue, 1, <<id>>)
    /\ UNCHANGED <<deviceVars, wifiVars, bootVars, blink_pc, boot_partition, system, app_main_pc,
                   taskVars, ota_flash_write_count, led>>

PulseNext ==
    \/ ota_library_post
    \/ ota_event_handler

PulseSpec == PulseInit /\ [][PulseNext]_vars

(***************************************************************************)
(* The boot of the device: app_main up to the creation of its tasks, the   *)
(* WiFi supervisor (event_handler, wifi_init_sta) and the rollback guard.  *)
(* The WiFi driver is the environment: it posts its events to the default  *)
(* event loop, whose task runs event_handler for one event at a time in    *)
(* posting order.                                                          *)
(***************************************************************************)
WifiEvents == {"WIFI_EVENT_STA_START", "WIFI_EVENT_STA_CONNECTED",
               "WIFI_EVENT_STA_DISCONNECTED", "IP_EVENT_STA_GOT_IP"}

\* the images a boot can run: the bootloader turns a new image into a pending one
BootStates == RollbackStates \ {"New"}

\* the values the firmware's RAM has when app_main is entered
RamAtBoot ==
    /\ s_retry_num = 0
    /\ wifi_connected_bit = FALSE
    /\ wifi_state = "Idle"
    /\ wifi_link = "idle"
    /\ wifi_event_queue = << >>
    /\ wifi_events_posted = 0
    /\ connect_attempts = 0
    /\ wifi_failures = 0
    /\ disconnects_since_ip = 0
    /\ reconnects_since_ip = 0
    /\ wifi_handler_pc = "idle"
    /\ guard = NoGuard

\* the device at the entry of app_main; ota_task: whether the build creates the OTA task
AtBoot(ota_task) ==
    /\ config \in [SKIP_VERSION_CHECK : {FALSE}, ANTI_ROLLBACK : {FALSE},
                   OTA_TASK : {ota_task}, ROLLBACK_ENABLE : BOOLEAN]
    /\ running_version = InstalledVersion
    /\ hw_sec_version = 0
    /\ boot_partition = "running"
    /\ system = "running"
    /\ app_main_pc = "start"
    /\ pc = [t \in Tasks |-> "none"]
    /\ err = [t \in Tasks |-> ESP_OK]
    /\ ota_finish_err = [t \in Tasks |-> ESP_OK]
    /\ https_ota_handle = [t \in Tasks |-> NULL]
    /\ app_desc = [t \in Tasks |-> EmptyDesc]
    /\ image_len_read = [t \in Tasks |-> 0]
    /\ calls = [t \in Tasks |-> << >>]
    /\ ota_flash_write_count = 0
    /\ led = LedOff
    /\ event_queue = << >>
    /\ blink_pc = "none"
    /\ RamAtBoot
    /\ ota_state \in (IF config.ROLLBACK_ENABLE THEN BootStates ELSE {"Undefined"})
    /\ boots = 1

BootInit == AtBoot(FALSE)

\* what no step of the boot touches: the OTA tasks and their events
otaVars == <<boot_partition, taskVars, ota_flash_write_count, event_queue>>

\* app_main up to the blocking wait of wifi_init_sta: NVS, the strip, the
\* registration of event_handler and esp_wifi_start, which posts STA_START
AppMainStart(next_pc) ==
    /\ system = "running"
    /\ app_main_pc = "start"
    /\ app_main_pc' = next_pc
    /\ led' = led_clear
    /\ wifi_event_queue' = Append(wifi_event_queue, "WIFI_EVENT_STA_START")
    /\ UNCHANGED <<deviceVars, otaVars, bootVars, blink_pc, system, s_retry_num, wifi_connected_bit,
                   wifi_state, wifi_link, wifi_events_posted, connect_attempts,
                   wifi_failures, disconnects_since_ip, reconnects_since_ip,
                   wifi_handler_pc>>

\* app_main with the rollback guard placed before the connection
app_main_start_mutant_guard_first == AppMainStart("rollback_guard")

app_main_start == AppMainStart("wifi_wait")

\* xEventGroupWaitBits(.., WIFI_CONNECTED_BIT, pdFALSE, pdFALSE, portMAX_DELAY)
\* and the rest of wifi_init_sta; the bit is not cleared
WifiWait(unblocked) ==
    /\ system = "running"
    /\ app_main_pc = "wifi_wait"
    /\ unblocked
    /\ app_main_pc' = "rollback_guard"
    /\ UNCHANGED <<deviceVars, otaVars, wifiVars, bootVars, blink_pc, system, led>>

\* the wait given up once the retries are exhausted
wifi_init_sta_wait_mutant_gives_up == WifiWait(wifi_connected_bit \/ wifi_state = "Failed")

wifi_init_sta_wait == WifiWait(wifi_connected_bit)

\* the rollback guard of app_main, compiled in with CONFIG_BOOTLOADER_APP_ROLLBACK_ENABLE:
\* esp_ota_get_state_partition, and for a pending image
\* esp_ota_mark_app_valid_cancel_rollback, whose failure is only logged
RollbackGuard(pending, confirmations, after_failure) ==
    /\ system = "running"
    /\ app_main_pc = "rollback_guard"
    /\ app_main_pc' = "create_tasks"
    /\ IF ~config.ROLLBACK_ENABLE
         THEN UNCHANGED <<guard, ota_state, system>>
         ELSE \E read \in {ESP_OK, ESP_FAIL}, result \in {ESP_OK, ESP_FAIL} :
                IF read = ESP_OK /\ ota_state \in pending
                  THEN /\ guard' = [read |-> read, state |-> ota_state,
                                    confirm_calls |-> confirmations,
                                    confirm_result |-> result]
                       /\ ota_state' = IF result = ESP_OK THEN "Valid" ELSE ota_state
                       /\ system' = IF result = ESP_OK THEN system ELSE after_failure
                  ELSE /\ guard' = [read |-> read,
                                    state |-> IF read = ESP_OK THEN ota_state ELSE "none",
                                    confirm_calls |-> 0, confirm_result |-> "none"]
                       /\ UNCHANGED <<ota_state, system>>
    /\ UNCHANGED <<deviceVars, otaVars, wifiVars, boots, blink_pc, led>>

\* a guard that restarts the device when the confirmation fails
app_main_rollback_guard_mutant_restart ==
    RollbackGuard({"PendingVerify"}, 1, "restarting")

\* a guard that confirms the image a second time
app_main_rollback_guard_mutant_twice == RollbackGuard({"PendingVerify"}, 2, "running")

\* a guard that confirms whatever state it reads
app_main_rollback_guard_mutant_any_state == RollbackGuard(BootStates, 1, "running")

app_main_rollback_guard == RollbackGuard({"PendingVerify"}, 1, "running")

(***************************************************************************)
(* event_handler, branch by branch: what it leaves in s_retry_num, how     *)
(* often it calls esp_wifi_connect, the event-group bit, the strip and the *)
(* connection state it reports.  n is s_retry_num before the handler runs. *)
(***************************************************************************)
\* a handler that retries without counting
WifiHandlerRetryNum_mutant_not_counted(id, n) ==
    IF id = "IP_EVENT_STA_GOT_IP" THEN 0 ELSE n

\* a handler that counts every disconnect, past the limit too
WifiHandlerRetryNum_mutant_unbounded(id, n) ==
    CASE id = "WIFI_EVENT_STA_DISCONNECTED" -> n + 1
      [] id = "IP_EVENT_STA_GOT_IP" -> 0
      [] OTHER -> n

\* a handler that also resets the counter when the station associates
WifiHandlerRetryNum_mutant_reset_on_connected(id, n) ==
    CASE id = "WIFI_EVENT_STA_DISCONNECTED" -> IF n < MAXIMUM_RETRY THEN n + 1 ELSE n
      [] id \in {"IP_EVENT_STA_GOT_IP", "WIFI_EVENT_STA_CONNECTED"} -> 0
      [] OTHER -> n

\* a handler that gives the retries back when the station starts
WifiHandlerRetryNum_mutant_reset_on_start(id, n) ==
    CASE id = "WIFI_EVENT_STA_DISCONNECTED" -> IF n < MAXIMUM_RETRY THEN n + 1 ELSE n
      [] id \in {"IP_EVENT_STA_GOT_IP", "WIFI_EVENT_STA_START"} -> 0
      [] OTHER -> n

WifiHandlerRetryNum(id, n) ==
    CASE id = "WIFI_EVENT_STA_DISCONNECTED" -> IF n < MAXIMUM_RETRY THEN n + 1 ELSE n
      [] id = "IP_EVENT_STA_GOT_IP" -> 0
      [] OTHER -> n

\* a handler that keeps reconnecting after the last retry
WifiHandlerConnects_mutant_unlimited(id, n) ==
    IF id \in {"WIFI_EVENT_STA_START", "WIFI_EVENT_STA_DISCONNECTED"} THEN 1 ELSE 0

WifiHandlerConnects(id, n) ==
    CASE id = "WIFI_EVENT_STA_START" -> 1
      [] id = "WIFI_EVENT_STA_DISCONNECTED" -> IF n < MAXIMUM_RETRY THEN 1 ELSE 0
      [] OTHER -> 0

\* a handler that does not signal the event group
WifiHandlerBit_mutant_not_signalled(id, bit) == bit

\* the flag following the link: cleared when a disconnect is handled
WifiHandlerBit_mutant_cleared_on_disconnect(id, bit) ==
    CASE id = "IP_EVENT_STA_GOT_IP" -> TRUE
      [] id = "WIFI_EVENT_STA_DISCONNECTED" -> FALSE
      [] OTHER -> bit

WifiHandlerBit(id, bit) == IF id = "IP_EVENT_STA_GOT_IP" THEN TRUE ELSE bit

WifiHandlerLed(id, n, shown) ==
    CASE id = "WIFI_EVENT_STA_DISCONNECTED" ->
            IF n < MAXIMUM_RETRY THEN led_set_color_orange ELSE led_set_color_red
      [] id = "IP_EVENT_STA_GOT_IP" -> led_set_color_green
      [] OTHER -> shown

WifiHandlerState(id, n, state) ==
    CASE id = "WIFI_EVENT_STA_START" -> "Connecting"
      [] id = "WIFI_EVENT_STA_DISCONNECTED" ->
            IF n < MAXIMUM_RETRY THEN "Retrying" ELSE "Failed"
      [] id = "IP_EVENT_STA_GOT_IP" -> "Connected"
      [] OTHER -> state

\* event_handler up to the point where it can lose the processor: the whole
\* handler for the WiFi events, and for IP_EVENT_STA_GOT_IP the handler up to
\* xEventGroupSetBits, which makes the task blocked in xEventGroupWaitBits
\* ready before the handler has called led_set_color_green
wifi_event_handler ==
    /\ system = "running"
    /\ wifi_handler_pc = "idle"
    /\ wifi_event_queue # << >>
    /\ LET id == Head(wifi_event_queue)
           connects == WifiHandlerConnects(id, s_retry_num)
       IN /\ s_retry_num' = WifiHandlerRetryNum(id, s_retry_num)
          /\ connect_attempts' = connect_attempts + connects
          /\ wifi_link' = IF connects > 0 THEN "connecting" ELSE wifi_link
          /\ wifi_connected_bit' = WifiHandlerBit(id, wifi_connected_bit)
          /\ led' = IF id = "IP_EVENT_STA_GOT_IP"
                      THEN led ELSE WifiHandlerLed(id, s_retry_num, led)
          /\ wifi_handler_pc' = IF id = "IP_EVENT_STA_GOT_IP" THEN "signalled" ELSE "idle"
          /\ wifi_state' = WifiHandlerState(id, s_retry_num, wifi_state)
          /\ wifi_failures' =
                IF WifiHandlerState(id, s_retry_num, wifi_state) = "Failed"
                   /\ id = "WIFI_EVENT_STA_DISCONNECTED"
                  THEN wifi_failures + 1 ELSE wifi_failures
          /\ disconnects_since_ip' =
                CASE id = "WIFI_EVENT_STA_DISCONNECTED" -> disconnects_since_ip + 1
                  [] id = "IP_EVENT_STA_GOT_IP" -> 0
                  [] OTHER -> disconnects_since_ip
          /\ reconnects_since_ip' =
                CASE id = "WIFI_EVENT_STA_DISCONNECTED" -> reconnects_since_ip + connects
                  [] id = "IP_EVENT_STA_GOT_IP" -> 0
                  [] OTHER -> reconnects_since_ip
    /\ wifi_event_queue' = Tail(wifi_event_queue)
    /\ UNCHANGED <<deviceVars, otaVars, bootVars, blink_pc, system, app_main_pc,
                   wifi_events_posted>>

\* the rest of the IP_EVENT_STA_GOT_IP branch: led_set_color_green() and the
\* vTaskDelay of 2000 ms, after which the event loop takes the next event
GotIpReport(colour) ==
    /\ system = "running"
    /\ wifi_handler_pc = "signalled"
    /\ wifi_handler_pc' = "idle"
    /\ led' = colour
    /\ UNCHANGED <<deviceVars, otaVars, bootVars, blink_pc, system, app_main_pc,
                   s_retry_num, wifi_connected_bit, wifi_state, wifi_link,
                   wifi_event_queue, wifi_events_posted, connect_attempts,
                   wifi_failures, disconnects_since_ip, reconnects_since_ip>>

wifi_event_handler_green ==
    GotIpReport(WifiHandlerLed("IP_EVENT_STA_GOT_IP", s_retry_num, led))

(***************************************************************************)
(* The WiFi driver and the DHCP client.  After esp_wifi_connect the        *)
(* attempt fails (STA_DISCONNECTED) or the station associates              *)
(* (STA_CONNECTED); an associated station gets its address (GOT_IP) or     *)
(* loses the link (STA_DISCONNECTED).  An idle station posts nothing until *)
(* esp_wifi_connect is called again.                                       *)
(***************************************************************************)
DriverPost(from, to, id) ==
    /\ system = "running"
    /\ wifi_link \in from
    /\ wifi_events_posted < MaxWifiEvents
    /\ wifi_link' = to
    /\ wifi_event_queue' = Append(wifi_event_queue, id)
    /\ wifi_events_posted' = wifi_events_posted + 1
    /\ UNCHANGED <<deviceVars, otaVars, bootVars, blink_pc, system, app_main_pc, led, s_retry_num,
                   wifi_connected_bit, wifi_state, connect_attempts, wifi_failures,
                   disconnects_since_ip, reconnects_since_ip, wifi_handler_pc>>

wifi_driver_connect_failed ==
    DriverPost({"connecting"}, "idle", "WIFI_EVENT_STA_DISCONNECTED")
wifi_driver_connected ==
    DriverPost({"connecting"}, "associated", "WIFI_EVENT_STA_CONNECTED")
wifi_driver_got_ip ==
    DriverPost({"associated"}, "got_ip", "IP_EVENT_STA_GOT_IP")
wifi_driver_link_lost ==
    DriverPost({"associated", "got_ip"}, "idle", "WIFI_EVENT_STA_DISCONNECTED")

(***************************************************************************)
(* A reset or power cycle.  RAM starts again; the image state is kept in   *)
(* flash.  With rollback enabled the bootloader does not boot an image     *)
(* that is still pending: it goes back to the previous one.                *)
(***************************************************************************)
Reboot ==
    /\ boots < MaxBoots
    /\ boots' = boots + 1
    /\ system' = "running"
    /\ app_main_pc' = "start"
    /\ led' = LedOff
    /\ s_retry_num' = 0
    /\ wifi_connected_bit' = FALSE
    /\ wifi_state' = "Idle"
    /\ wifi_link' = "idle"
    /\ wifi_event_queue' = << >>
    /\ wifi_events_posted' = 0
    /\ connect_attempts' = 0
    /\ wifi_failures' = 0
    /\ disconnects_since_ip' = 0
    /\ reconnects_since_ip' = 0
    /\ wifi_handler_pc' = "idle"
    /\ guard' = NoGuard
    /\ blink_pc' = "none"
    /\ IF config.ROLLBACK_ENABLE /\ ota_state = "PendingVerify"
         THEN ota_state' \in {"Valid", "Undefined"}
         ELSE UNCHANGED ota_state
    /\ pc' = [t \in Tasks |-> "none"]
    /\ err' = [t \in Tasks |-> ESP_OK]
    /\ ota_finish_err' = [t \in Tasks |-> ESP_OK]
    /\ https_ota_handle' = [t \in Tasks |-> NULL]
    /\ app_desc' = [t \in Tasks |-> EmptyDesc]
    /\ image_len_read' = [t \in Tasks |-> 0]
    /\ calls' = [t \in Tasks |-> << >>]
    /\ ota_flash_write_count' = 0
    /\ event_queue' = << >>
    /\ UNCHANGED <<deviceVars, boot_partition>>

BootNext ==
    \/ app_main_start
    \/ wifi_init_sta_wait
    \/ app_main_rollback_guard
    \/ app_main_create_tasks
    \/ led_strip_task
    \/ wifi_event_handler
    \/ wifi_event_handler_green
    \/ wifi_driver_connect_failed
    \/ wifi_driver_connected
    \/ wifi_driver_got_ip
    \/ wifi_driver_link_lost
    \/ Reboot

\* the tasks of the firmware are scheduled when they can run; the driver's
\* events and resets come from outside and are not owed to anybody
BootSpec ==
    /\ BootInit
    /\ [][BootNext]_vars
    /\ WF_vars(app_main_start)
    /\ WF_vars(wifi_init_sta_wait)
    /\ WF_vars(app_main_rollback_guard)
    /\ WF_vars(app_main_create_tasks)
    /\ WF_vars(led_strip_task)
    /\ WF_vars(wifi_event_handler)
    /\ WF_vars(wifi_event_handler_green)

(***************************************************************************)
(* The start of an OTA session on a device whose WiFi comes and goes: the  *)
(* boot as above in a build that creates the OTA task, and the task from   *)
(* its creation to the return of esp_https_ota_begin.                      *)
(***************************************************************************)
SessionInit == AtBoot(TRUE)

SessionNext ==
    \/ BootNext
    \/ ota_event_handler
    \/ \E t \in Tasks :
        \/ ota_task_entry(t)
        \/ ota_task_begin(t)
        \/ ota_task_begin_failed(t)

SessionSpec == SessionInit /\ [][SessionNext]_vars

(***************************************************************************)
(* The boot on a device whose caller starts the station again once the     *)
(* connection has failed: esp_wifi_start posts WIFI_EVENT_STA_START, as at *)
(* the first start in wifi_init_sta.                                       *)
(***************************************************************************)
wifi_station_restart ==
    /\ wifi_state = "Failed"
    /\ wifi_event_queue = << >>
    /\ DriverPost({"idle"}, "idle", "WIFI_EVENT_STA_START")

RestartNext ==
    \/ BootNext
    \/ wifi_station_restart

RestartSpec == BootInit /\ [][RestartNext]_vars

(***************************************************************************)
(* The monolithic implementation, led_strip_custom.c: its own copies of    *)
(* the event handlers, of the header validation and of the OTA task, which *)
(* drive the strip through set_all_leds.                                   *)
(***************************************************************************)
\* set_all_leds(r, g, b): every pixel gets the triple, then the strip is refreshed
set_all_leds(r, g, b) == <<r, g, b>>

\* event_handler of led_strip_custom.c for event id: the calls of
\* esp_wifi_connect it makes, and s_retry_num, WIFI_CONNECTED_BIT and the strip
\* after it (n, bit, shown: their values before)
custom_event_handler(id, n, bit, shown) ==
    CASE id = "WIFI_EVENT_STA_START" ->
            [connects |-> 1, s_retry_num |-> n, bit |-> bit, led |-> shown]
      [] id = "WIFI_EVENT_STA_DISCONNECTED" ->
            IF n < MAXIMUM_RETRY
              THEN [connects |-> 1, s_retry_num |-> n + 1, bit |-> bit,
                    led |-> set_all_leds(ORANGE_R, ORANGE_G, ORANGE_B)]
              ELSE [connects |-> 0, s_retry_num |-> n, bit |-> bit,
                    led |-> set_all_leds(RED_R, RED_G, RED_B)]
      [] id = "IP_EVENT_STA_GOT_IP" ->
            [connects |-> 0, s_retry_num |-> 0, bit |-> TRUE,
             led |-> set_all_leds(GREEN_R, GREEN_G, GREEN_B)]
      [] OTHER -> [connects |-> 0, s_retry_num |-> n, bit |-> bit, led |-> shown]

\* ota_event_handler of led_strip_custom.c for event id: ota_flash_write_count
\* and the strip after it (count, shown: their values before)
custom_ota_event_handler(id, count, shown) ==
    CASE id = "ESP_HTTPS_OTA_START" ->
            [count |-> 0, led |-> set_all_leds(BLUE_R, BLUE_G, BLUE_B)]
      [] id = "ESP_HTTPS_OTA_WRITE_FLASH" ->
            [count |-> count + 1,
             led |-> IF (count + 1) % 10 = 0 THEN set_all_leds(BLUE_R, BLUE_G, BLUE_B)
                     ELSE IF (count + 1) % 10 = 5 THEN LedOff
                     ELSE shown]
      [] id = "ESP_HTTPS_OTA_FINISH" ->
            [count |-> count, led |-> set_all_leds(GREEN_R, GREEN_G, GREEN_B)]
      [] id = "ESP_HTTPS_OTA_ABORT" ->
            [count |-> count, led |-> set_all_leds(RED_R, RED_G, RED_B)]
      [] OTHER -> [count |-> count, led |-> shown]

\* advanced_ota_task, one action per blocking call; the calls of the
\* esp_https_ota library are the ones ota_task makes
advanced_ota_task_entry(t) == ota_task_entry(t)
advanced_ota_task_begin(t) == ota_task_begin(t)
advanced_ota_task_begin_failed(t) ==
    BeginFailed(t, set_all_leds(RED_R, RED_G, RED_B), "set_all_leds(RED)", "deleted")
advanced_ota_task_get_img_desc(t) == GetImgDesc(t, "ota_end")
advanced_ota_task_validate(t) ==
    Validate(t, "perform", "ota_end", "validate_image_header")
advanced_ota_task_perform(t) == ota_task_perform(t)
advanced_ota_task_is_complete(t) ==
    IsComplete(t, "ota_end", set_all_leds(RED_R, RED_G, RED_B), "set_all_leds(RED)")
advanced_ota_task_finish(t) == Finish(t, err[t] = ESP_OK)
advanced_ota_task_success(t) ==
    Success(t, TRUE, set_all_leds(GREEN_R, GREEN_G, GREEN_B), "set_all_leds(GREEN)")
advanced_ota_task_restart(t) == ota_task_restart(t)
advanced_ota_task_finish_failed(t) ==
    FinishFailed(t, TRUE, set_all_leds(RED_R, RED_G, RED_B), "set_all_leds(RED)")
advanced_ota_task_ota_end(t) == ota_task_ota_end(t)
advanced_ota_task_ota_end_report(t) ==
    OtaEndReport(t, set_all_leds(RED_R, RED_G, RED_B), "set_all_leds(RED)")

advanced_ota_task(t) ==
    \/ advanced_ota_task_entry(t)
    \/ advanced_ota_task_begin(t)
    \/ advanced_ota_task_begin_failed(t)
    \/ advanced_ota_task_get_img_desc(t)
    \/ advanced_ota_task_validate(t)
    \/ advanced_ota_task_perform(t)
    \/ advanced_ota_task_is_complete(t)
    \/ advanced_ota_task_finish(t)
    \/ advanced_ota_task_success(t)
    \/ advanced_ota_task_restart(t)
    \/ advanced_ota_task_finish_failed(t)
    \/ advanced_ota_task_ota_end(t)
    \/ advanced_ota_task_ota_end_report(t)

(***************************************************************************)
(* The two implementations side by side: the OTA task of ota_manager.c in  *)
(* slot ModularTask and the one of led_strip_custom.c in slot              *)
(* MonolithicTask, on the same transport: a call of the esp_https_ota      *)
(* library returns to the one what it returned to the other at the same    *)
(* place of the session, and the task that has made fewer calls runs.      *)
(***************************************************************************)
ModularTask == 1
MonolithicTask == 2

EquivInit ==
    /\ config \in [SKIP_VERSION_CHECK : BOOLEAN, ANTI_ROLLBACK : BOOLEAN,
                   OTA_TASK : {TRUE}, ROLLBACK_ENABLE : {TRUE}]
    /\ running_version = InstalledVersion
    /\ hw_sec_version \in SecureVersions
    /\ boot_partition = "running"
    /\ system = "running"
    /\ app_main_pc = "returned"
    /\ pc = [t \in Tasks |-> IF t \in {ModularTask, MonolithicTask} THEN "entry"
                                                                   ELSE "none"]
    /\ err = [t \in Tasks |-> ESP_OK]
    /\ ota_finish_err = [t \in Tasks |-> ESP_OK]
    /\ https_ota_handle = [t \in Tasks |-> NULL]
    /\ app_desc = [t \in Tasks |-> EmptyDesc]
    /\ image_len_read = [t \in Tasks |-> 0]
    /\ calls = [t \in Tasks |-> << >>]
    /\ ota_flash_write_count = 0
    /\ led = LedOff
    /\ event_queue = << >>
    /\ blink_pc = "none"
    /\ ConnectedBoot

ota_task(t) ==
    \/ ota_task_entry(t)
    \/ ota_task_begin(t)
    \/ ota_task_begin_failed(t)
    \/ ota_task_get_img_desc(t)
    \/ ota_task_validate(t)
    \/ ota_task_perform(t)
    \/ ota_task_is_complete(t)
    \/ ota_task_finish(t)
    \/ ota_task_success(t)
    \/ ota_task_restart(t)
    \/ ota_task_finish_failed(t)
    \/ ota_task_ota_end(t)
    \/ ota_task_ota_end_report(t)

\* the calls of the esp_https_ota library, whose results the transport decides
TransportCalls == {"esp_https_ota_begin", "esp_https_ota_get_img_desc",
                  "esp_https_ota_perform", "esp_https_ota_is_complete_data_received",
                  "esp_https_ota_finish"}

\* both tasks have been given the same outcomes by the transport so far
SameTransport ==
    LET m == calls[ModularTask]
        c == calls[MonolithicTask]
    IN /\ \A j \in 1..Len(m) :
              (j <= Len(c) /\ m[j][1] \in TransportCalls /\ c[j][1] = m[j][1])
                  => c[j][2] = m[j][2]
       /\ ( /\ m # << >> /\ c # << >>
            /\ \E j \in 1..Len(m) : m[j] = <<"esp_https_ota_get_img_desc", ESP_OK>>
            /\ \E j \in 1..Len(c) : c[j] = <<"esp_https_ota_get_img_desc", ESP_OK>> )
              => app_desc[ModularTask] = app_desc[MonolithicTask]

EquivNext ==
    \/ /\ Len(calls[ModularTask]) <= Len(calls[MonolithicTask])
       /\ ota_task(ModularTask)
       /\ SameTransport'
    \/ /\ Len(calls[MonolithicTask]) <= Len(calls[ModularTask])
       /\ advanced_ota_task(MonolithicTask)
       /\ SameTransport'

EquivSpec == EquivInit /\ [][EquivNext]_vars

(***************************************************************************)
(* ota_validate_image_header on its own: callers that hold a descriptor    *)
(* and call the function again and again, on every build, floor and        *)
(* descriptor.                                                             *)
(***************************************************************************)
MaxValidations == 2

ValidateInit ==
    /\ config \in [SKIP_VERSION_CHECK : BOOLEAN, ANTI_ROLLBACK : BOOLEAN,
                   OTA_TASK : {TRUE}, ROLLBACK_ENABLE : {TRUE}]
    /\ running_version = InstalledVersion
    /\ hw_sec_version \in SecureVersions
    /\ boot_partition = "running"
    /\ system = "running"
    /\ app_main_pc = "returned"
    /\ pc = [t \in Tasks |-> "validate"]
    /\ err = [t \in Tasks |-> ESP_OK]
    /\ ota_finish_err = [t \in Tasks |-> ESP_OK]
    /\ https_ota_handle = [t \in Tasks |-> "open"]
    /\ app_desc \in [Tasks -> Descriptors]
    /\ image_len_read = [t \in Tasks |-> 0]
    /\ calls = [t \in Tasks |-> << >>]
    /\ ota_flash_write_count = 0
    /\ led = LedOff
    /\ event_queue = << >>
    /\ blink_pc = "none"
    /\ ConnectedBoot

\* one more call of ota_validate_image_header(&app_desc) by caller t
validate_call(t) ==
    /\ Len(calls[t]) < MaxValidations
    /\ Validate(t, "validate", "validate", "ota_validate_image_header")

ValidateNext == \E t \in Tasks : validate_call(t)

ValidateSpec == ValidateInit /\ [][ValidateNext]_vars



(***************************************************************************)
(* What a task has done so far, read from its call log.                    *)
(***************************************************************************)
Called(t, fn) == \E i \in 1..Len(calls[t]) : calls[t][i][1] = fn
Returned(t, fn, ret) == \E i \in 1..Len(calls[t]) : calls[t][i] = <<fn, ret>>
CountCalls(t, fn) == Cardinality({i \in 1..Len(calls[t]) : calls[t][i][1] = fn})
ValidationFailed(t) ==
    \E i \in 1..Len(calls[t]) :
        calls[t][i][1] = "ota_validate_image_header" /\ calls[t][i][2] # ESP_OK
\* the session of task t is between its begin and its terminal phase
InSession(t) ==
    pc[t] \in {"get_img_desc", "validate", "perform", "is_complete", "finish", "success",
               "restart", "finish_failed", "ota_end", "ota_end_report"}
PendingWriters == {event_queue[i].task : i \in {j \in 1..Len(event_queue) :
                       event_queue[j].id = "ESP_HTTPS_OTA_WRITE_FLASH"}}

(***************************************************************************)
(* Properties of the OTA session.                                          *)
(***************************************************************************)

\* C1: a session whose image-header validation returned a non-OK result never
\* reaches Success: it never requests green, never reaches the restart and
\* never calls esp_restart.
C1_NoSuccessAfterFailedValidation ==
    \A t \in Tasks :
        ValidationFailed(t) =>
            /\ pc[t] \notin {"success", "restart", "restarted"}
            /\ ~Called(t, "led_set_color_green")
            /\ ~Called(t, "esp_restart")

C1_Witness ==
    \E t \in Tasks : ValidationFailed(t) /\ pc[t] = "deleted"

\* C2: no partial commit: in a session that ended by reporting a failure
\* (task deleted, no restart) finish has not returned ok and the previously
\* running image is still the boot image.
C2_NoPartialCommit ==
    \A t \in Tasks :
        pc[t] = "deleted" =>
            /\ ~Returned(t, "esp_https_ota_finish", ESP_OK)
            /\ boot_partition = "running"

\* C3: once is_complete has returned false the session is a transfer failure:
\* finish and esp_restart are never called, the task is on the abort path, and
\* when it has terminated abort was called once and red was its last colour,
\* whatever the transport reported.
C3_IncompleteTransferAborts ==
    \A t \in Tasks :
        Returned(t, "esp_https_ota_is_complete_data_received", "false") =>
            /\ ~Called(t, "esp_https_ota_finish")
            /\ ~Called(t, "esp_restart")
            /\ pc[t] \in {"ota_end", "ota_end_report", "deleted"}
            /\ pc[t] = "deleted" =>
                   /\ CountCalls(t, "esp_https_ota_abort") = 1
                   /\ calls[t][Len(calls[t]) - 1] = <<"led_set_color_red", "void">>

C3_Witness ==
    \E t \in Tasks :
        /\ Returned(t, "esp_https_ota_is_complete_data_received", "false")
        /\ Returned(t, "esp_https_ota_perform", ESP_OK)
        /\ err[t] = ESP_OK
        /\ pc[t] = "deleted"

\* C4: version-equality gate: with the skip flag off, a remote descriptor whose
\* version bytes equal the running image's version is rejected by the
\* validation and the session makes no download step.
C4_EqualVersionRejected ==
    \A t \in Tasks :
        ( /\ ~config.SKIP_VERSION_CHECK
          /\ Called(t, "ota_validate_image_header")
          /\ app_desc[t].version = running_version )
        => /\ ~Returned(t, "ota_validate_image_header", ESP_OK)
           /\ ~Called(t, "esp_https_ota_perform")

\* C5: anti-rollback gate: with the floor configured, a remote descriptor whose
\* secure_version is below the eFuse floor is rejected, whatever the versions
\* and whether or not the version check is skipped.
C5_AntiRollbackGate ==
    \A t \in Tasks :
        ( /\ config.ANTI_ROLLBACK
          /\ Called(t, "ota_validate_image_header")
          /\ app_desc[t].secure_version < hw_sec_version )
        => /\ ValidationFailed(t)
           /\ ~Called(t, "esp_https_ota_perform")

C5_Witness ==
    \E t \in Tasks :
        /\ config.ANTI_ROLLBACK
        /\ config.SKIP_VERSION_CHECK
        /\ app_desc[t].version # running_version
        /\ app_desc[t].secure_version < hw_sec_version
        /\ ValidationFailed(t)
        /\ pc[t] = "deleted"

\* C6: esp_restart is called only in a session whose transfer loop ended with
\* ESP_OK, whose is_complete returned true and whose finish returned ESP_OK
\* (after a successful begin, descriptor fetch and validation).
C6_RestartOnlyAfterVerifiedTransfer ==
    \A t \in Tasks :
        (Called(t, "esp_restart") \/ pc[t] \in {"success", "restart", "restarted"}) =>
            /\ Returned(t, "esp_https_ota_begin", ESP_OK)
            /\ Returned(t, "esp_https_ota_get_img_desc", ESP_OK)
            /\ Returned(t, "ota_validate_image_header", ESP_OK)
            /\ Returned(t, "esp_https_ota_perform", ESP_OK)
            /\ ~Returned(t, "esp_https_ota_perform", ESP_FAIL)
            /\ Returned(t, "esp_https_ota_is_complete_data_received", "true")
            /\ Returned(t, "esp_https_ota_finish", ESP_OK)

C6_Witness ==
    \E t \in Tasks : Called(t, "esp_restart") /\ system = "restarted"

\* C7 as claimed: every session that ended in a failure called
\* esp_https_ota_abort before its task terminated.
C7_EveryFailurePathAborts ==
    \A t \in Tasks : pc[t] = "deleted" => Called(t, "esp_https_ota_abort")

\* C7 as amended: a session that ended in a failure called esp_https_ota_abort
\* before its task terminated exactly when its begin had succeeded and finish
\* was not called (descriptor, validation and incomplete-transfer failures); a
\* begin failure and a failure after finish terminate without abort.
C7_AbortExactlyWhenOpenAndNotFinished ==
    \A t \in Tasks :
        pc[t] = "deleted" =>
            ( Called(t, "esp_https_ota_abort")
              <=> ( /\ Returned(t, "esp_https_ota_begin", ESP_OK)
                    /\ ~Called(t, "esp_https_ota_finish") ) )

C7_Witness ==
    \E t \in Tasks :
        /\ pc[t] = "deleted"
        /\ Returned(t, "esp_https_ota_get_img_desc", ESP_FAIL)
        /\ Called(t, "esp_https_ota_abort")

\* C8: in a session whose begin succeeded the handle is released exactly once:
\* finish and abort together are never called more than once, never on a
\* released handle, and once the session is over exactly one of them was
\* called.
C8_ReleasedExactlyOnce ==
    \A t \in Tasks :
        Returned(t, "esp_https_ota_begin", ESP_OK) =>
            /\ CountCalls(t, "esp_https_ota_finish")
                   + CountCalls(t, "esp_https_ota_abort") <= 1
            /\ https_ota_handle[t] \in {"open", "released"}
            /\ pc[t] \in {"deleted", "restarted"} =>
                   /\ CountCalls(t, "esp_https_ota_finish")
                          + CountCalls(t, "esp_https_ota_abort") = 1
                   /\ https_ota_handle[t] = "released"

C8_Witness ==
    \E t \in Tasks :
        /\ pc[t] = "deleted"
        /\ Returned(t, "esp_https_ota_begin", ESP_OK)
        /\ Called(t, "esp_https_ota_finish")
        /\ ~Called(t, "esp_https_ota_abort")

\* C9: every session that ends without a restart requested red as the last
\* thing before its task deleted itself.
C9_RedBeforeDelete ==
    \A t \in Tasks :
        pc[t] = "deleted" =>
            /\ Len(calls[t]) >= 2
            /\ calls[t][Len(calls[t])] = <<"vTaskDelete", "void">>
            /\ calls[t][Len(calls[t]) - 1] = <<"led_set_color_red", "void">>
            /\ ~Called(t, "esp_restart")

C9_Witness ==
    \E t \in Tasks :
        /\ pc[t] = "deleted"
        /\ Returned(t, "esp_https_ota_begin", ESP_FAIL)

\* C10: at most one task is between begin and its terminal phase, and the
\* write events waiting for ota_event_handler all come from one session.
C10_AtMostOneSession ==
    /\ Cardinality({t \in Tasks : InSession(t)}) <= 1
    /\ Cardinality(PendingWriters) <= 1

C10_Witness ==
    \E t \in Tasks : InSession(t) /\ PendingWriters = {t} /\ ota_flash_write_count > 0

(***************************************************************************)
(* Properties of the WiFi supervisor and of the boot.                      *)
(***************************************************************************)
\* a step in which event_handler runs for the event id
WifiHandles(id) ==
    /\ wifi_event_queue # << >>
    /\ Head(wifi_event_queue) = id
    /\ wifi_event_queue' = Tail(wifi_event_queue)
    /\ boots' = boots

\* C11: when a disconnect event is handled while s_retry_num < MAXIMUM_RETRY, the
\* handler adds exactly one to s_retry_num, calls esp_wifi_connect exactly once and
\* shows orange (state Retrying).
C11_RetryStep ==
    [][(WifiHandles("WIFI_EVENT_STA_DISCONNECTED") /\ s_retry_num < MAXIMUM_RETRY)
         => /\ s_retry_num' = s_retry_num + 1
            /\ connect_attempts' = connect_attempts + 1
            /\ wifi_link' = "connecting"
            /\ wifi_state' = "Retrying"
            /\ led' = led_set_color_orange]_vars

C11_Witness ==
    /\ wifi_state = "Retrying"
    /\ s_retry_num = 1
    /\ connect_attempts = 2
    /\ led = led_set_color_orange

\* C12: without an address assignment in between, the N-th handled disconnect with
\* N <= MAXIMUM_RETRY leaves the supervisor Retrying with N retries made; the
\* disconnect handled after MAXIMUM_RETRY retries makes it Failed and shows red
\* without a connect attempt; it fails at most once in a boot, and once Failed nothing
\* but a reset changes its state or makes a further connect attempt.
C12_RetryBudget ==
    [][/\ (WifiHandles("WIFI_EVENT_STA_DISCONNECTED")
             /\ disconnects_since_ip < MAXIMUM_RETRY)
          => /\ wifi_state' = "Retrying"
             /\ s_retry_num' = disconnects_since_ip + 1
             /\ connect_attempts' = connect_attempts + 1
       /\ (WifiHandles("WIFI_EVENT_STA_DISCONNECTED")
             /\ disconnects_since_ip = MAXIMUM_RETRY)
          => /\ wifi_state' = "Failed"
             /\ wifi_failures' = 1
             /\ led' = led_set_color_red
             /\ connect_attempts' = connect_attempts
       /\ (wifi_state = "Failed" /\ boots' = boots)
          => /\ wifi_state' = "Failed"
             /\ wifi_failures' = wifi_failures
             /\ connect_attempts' = connect_attempts
             /\ wifi_link' = "idle"
       /\ wifi_failures' <= 1]_vars

C12_Witness ==
    /\ wifi_state = "Failed"
    /\ wifi_failures = 1
    /\ disconnects_since_ip = MAXIMUM_RETRY + 1
    /\ connect_attempts = MAXIMUM_RETRY + 1
    /\ led = led_set_color_red
    /\ wifi_event_queue = << >>

\* C13: s_retry_num is always within 0..MAXIMUM_RETRY.
C13_RetryCounterInRange == s_retry_num \in 0..MAXIMUM_RETRY

C13_Witness ==
    /\ s_retry_num = MAXIMUM_RETRY
    /\ wifi_state = "Failed"

\* C14: handling IP_EVENT_STA_GOT_IP sets s_retry_num to 0, and the handling of any
\* other event never lowers it; it becomes 0 from a positive value only by a GOT_IP.
C14_ResetOnlyOnGotIp ==
    [][/\ WifiHandles("IP_EVENT_STA_GOT_IP") => s_retry_num' = 0
       /\ (boots' = boots /\ ~WifiHandles("IP_EVENT_STA_GOT_IP"))
            => s_retry_num' >= s_retry_num]_vars

C14_Witness ==
    /\ wifi_state = "Connected"
    /\ s_retry_num = 0
    /\ connect_attempts > 1
    /\ disconnects_since_ip = 0

\* app_main is past the blocking wait: wifi_init_sta has returned
WifiInitReturned == app_main_pc \in {"rollback_guard", "create_tasks", "returned"}
\* the retries are exhausted, no address was ever assigned, the caller is waiting
FailedWhileBlocked ==
    /\ wifi_state = "Failed"
    /\ ~wifi_connected_bit
    /\ app_main_pc = "wifi_wait"

C16_ReturnsAfterFailure ==
    (wifi_state = "Failed" /\ app_main_pc = "wifi_wait") => ENABLED wifi_init_sta_wait

\* C17: handling a GOT_IP event sets WIFI_CONNECTED_BIT, and a caller blocked in
\* wifi_init_sta while the bit is set eventually returns (or the device is reset).
C17_WaiterResumes ==
    /\ [][WifiHandles("IP_EVENT_STA_GOT_IP") => wifi_connected_bit']_vars
    /\ (wifi_connected_bit /\ app_main_pc = "wifi_wait")
          ~> (app_main_pc = "rollback_guard" \/ ~wifi_connected_bit)

C17_Witness ==
    /\ wifi_connected_bit
    /\ wifi_state = "Connected"
    /\ app_main_pc = "rollback_guard"
    /\ guard = NoGuard

\* app_main is past the rollback guard
GuardPassed == app_main_pc \in {"create_tasks", "returned"}

\* C18 as stated: on a boot whose running image is pending verification the
\* confirmation has been called exactly once when app_main is past the guard.
C18_ConfirmedExactlyOnce ==
    (GuardPassed /\ config.ROLLBACK_ENABLE /\ ota_state = "PendingVerify")
        => guard.confirm_calls = 1

\* C18: the confirmation is never called twice in a boot; it is called exactly once
\* when the guard is reached and reads the state PendingVerify, and not at all before
\* wifi_init_sta has returned or when the state cannot be read; after a
\* successful confirmation the image is Valid and stays Valid over later boots.
C18_ConfirmedOnceWhenRead ==
    /\ [](guard.confirm_calls <= 1)
    /\ []((GuardPassed /\ guard.read = ESP_OK /\ guard.state = "PendingVerify")
            => guard.confirm_calls = 1)
    /\ [](guard.confirm_calls = 1
            => (guard.read = ESP_OK /\ guard.state = "PendingVerify" /\ wifi_connected_bit))
    /\ [](guard.confirm_result = ESP_OK => ota_state = "Valid")
    /\ [][ota_state = "Valid" => ota_state' = "Valid"]_vars

C18_Witness ==
    /\ guard.state = "PendingVerify"
    /\ guard.confirm_calls = 1
    /\ guard.confirm_result = ESP_OK
    /\ ota_state = "Valid"
    /\ app_main_pc = "returned"

\* C19 as stated: the guard has inspected the image before the blocking connect
\* is started.
C19_GuardBeforeConnect ==
    (config.ROLLBACK_ENABLE /\ app_main_pc = "wifi_wait") => guard # NoGuard

\* C19: the guard inspects and confirms only after wifi_init_sta has returned, so
\* only after an address was assigned: while app_main is before or in the blocking
\* connect the guard has done nothing.
C19_GuardAfterConnect ==
    /\ guard # NoGuard => (wifi_connected_bit /\ GuardPassed)
    /\ (GuardPassed /\ config.ROLLBACK_ENABLE) => guard # NoGuard

C19_Witness ==
    /\ config.ROLLBACK_ENABLE
    /\ FailedWhileBlocked
    /\ ota_state = "PendingVerify"
    /\ guard = NoGuard

\* C20: when esp_ota_mark_app_valid_cancel_rollback fails in the guard, esp_restart
\* is not called, the image stays PendingVerify and app_main goes on to create
\* its tasks.
C20_NoRestartOnFailedConfirmation ==
    guard.confirm_result = ESP_FAIL
        => /\ system = "running"
           /\ ota_state = "PendingVerify"
           /\ GuardPassed
           /\ app_main_pc = "create_tasks" => ENABLED app_main_create_tasks

C20_Witness ==
    /\ guard.confirm_result = ESP_FAIL
    /\ guard.confirm_calls = 1
    /\ ota_state = "PendingVerify"
    /\ app_main_pc = "returned"

\* a step in which app_main runs its rollback guard
GuardRuns == app_main_pc = "rollback_guard" /\ app_main_pc' = "create_tasks"

C22_RedStaysAfterAbort ==
    \A t \in Tasks : pc[t] = "deleted" => led = led_set_color_red

\* the four status colours of the reporter
StatusColours ==
    {led_set_color_orange, led_set_color_red, led_set_color_green, led_set_color_blue}

\* C23: the triples requested for reconnecting, error, success and update in
\* progress are pairwise different, so the strip of a retrying device (before the
\* blink task runs) never shows what it shows for a connected one.
C23_ColoursDistinguishable ==
    (wifi_state = "Retrying" /\ blink_pc = "none")
        => /\ led # led_set_color_green
           /\ Cardinality(StatusColours) = 4

\* a step in which ota_event_handler runs for the event id
OtaHandles(id) ==
    /\ event_queue # << >>
    /\ Head(event_queue).id = id
    /\ event_queue' = Tail(event_queue)

\* C24: the START event sets ota_flash_write_count to 0 and every WRITE_FLASH event
\* adds one to it; on a write the handler sets blue when the new count is a multiple
\* of 10, clears the strip when it is 5 modulo 10, and leaves the strip otherwise.
C24_DownloadPulse ==
    [][/\ OtaHandles("ESP_HTTPS_OTA_START") => ota_flash_write_count' = 0
       /\ OtaHandles("ESP_HTTPS_OTA_WRITE_FLASH")
            => /\ ota_flash_write_count' = ota_flash_write_count + 1
               /\ led' = CASE ota_flash_write_count' % 10 = 0 -> led_set_color_blue
                            [] ota_flash_write_count' % 10 = 5 -> LedOff
                            [] OTHER -> led]_vars

C24_Witness ==
    /\ ota_flash_write_count = 10
    /\ led = led_set_color_blue
    /\ event_queue = << >>

\* a step in which the OTA task t calls esp_https_ota_begin
BeginCalled(t) == pc[t] = "begin" /\ pc'[t] \in {"get_img_desc", "begin_failed"}

\* C25: whenever the OTA task calls esp_https_ota_begin, wifi_init_sta has returned
\* and the connection state at that moment is Connected.
C25_BeginOnlyWhileConnected ==
    [][\A t \in Tasks :
          BeginCalled(t) => /\ app_main_pc = "returned"
                            /\ wifi_connected_bit
                            /\ wifi_state = "Connected"]_vars

\* C26: in a session whose esp_https_ota_perform returned a transport error,
\* esp_https_ota_finish is never called and the device is not restarted, and when
\* the task has terminated it has called esp_https_ota_abort and requested red.
C26_TransportFailureAborts ==
    \A t \in Tasks :
        Returned(t, "esp_https_ota_perform", ESP_FAIL)
            => /\ ~Called(t, "esp_https_ota_finish")
               /\ ~Called(t, "esp_restart")
               /\ pc[t] = "deleted" => /\ Called(t, "esp_https_ota_abort")
                                        /\ Called(t, "led_set_color_red")

\* the phases in which the task has ended: vTaskDelete(NULL) or esp_restart()
Terminal == {"deleted", "restarted"}
\* calls a session makes at most: two per block of the transfer loop, and the ten
\* of the longest path around it (the one that ends in esp_restart)
MaxSessionCalls == 2 * MaxChunks + 10

\* C27: every created OTA task eventually deletes itself or restarts the device;
\* until then it always has a next step, it makes a bounded number of calls, and
\* after its terminal step it does nothing more.
C27_SessionTerminates ==
    /\ \A t \in Tasks : (pc[t] # "none") ~> (pc[t] \in Terminal)
    /\ [](\A t \in Tasks : (pc[t] \notin Terminal \cup {"none"}) => ENABLED TaskStep(t))
    /\ [](\A t \in Tasks : Len(calls[t]) <= MaxSessionCalls)
    /\ [][\A t \in Tasks : pc[t] \in Terminal
                             => (pc'[t] = pc[t] /\ calls'[t] = calls[t])]_vars

C27_Witness ==
    \E t \in Tasks :
        /\ pc[t] = "deleted"
        /\ image_len_read[t] = MaxChunks
        /\ Called(t, "esp_https_ota_abort")

\* C28: ota_flash_write_count changes only when the handler runs for a WRITE_FLASH
\* event, which adds one, or for the START event, which sets it to 0; the START
\* event is handled before any write of the session, so the count never decreases
\* during the session, and the ABORT event of a failed session leaves it.
C28_WriteCountMonotonic ==
    [][/\ ota_flash_write_count' # ota_flash_write_count
            => \/ OtaHandles("ESP_HTTPS_OTA_WRITE_FLASH")
                    /\ ota_flash_write_count' = ota_flash_write_count + 1
               \/ OtaHandles("ESP_HTTPS_OTA_START") /\ ota_flash_write_count' = 0
       /\ OtaHandles("ESP_HTTPS_OTA_START") => ota_flash_write_count = 0
       /\ OtaHandles("ESP_HTTPS_OTA_ABORT") => ota_flash_write_count' = ota_flash_write_count
       /\ ota_flash_write_count' >= ota_flash_write_count]_vars

C28_Witness ==
    \E t \in Tasks :
        /\ pc[t] = "deleted"
        /\ Called(t, "esp_https_ota_abort")
        /\ event_queue = << >>
        /\ ota_flash_write_count = MaxChunks

\* a step of the event-loop task in event_handler, and a reset of the device
WifiHandlerRuns ==
    /\ wifi_event_queue # << >>
    /\ wifi_event_queue' = Tail(wifi_event_queue)
    /\ boots' = boots
DeviceReset == boots' # boots

\* C29: s_retry_num and the connection state are changed only by event_handler in
\* the event-loop task; the caller blocked in wifi_init_sta looks at nothing but
\* WIFI_CONNECTED_BIT, which only the GOT_IP branch of the handler sets.
C29_SingleContext ==
    /\ [][(s_retry_num' # s_retry_num \/ wifi_state' # wifi_state)
             => (WifiHandlerRuns \/ DeviceReset)]_vars
    /\ [][(wifi_connected_bit' # wifi_connected_bit)
             => (WifiHandles("IP_EVENT_STA_GOT_IP") \/ DeviceReset)]_vars
    /\ []((ENABLED wifi_init_sta_wait)
             <=> (system = "running" /\ app_main_pc = "wifi_wait" /\ wifi_connected_bit))

C29_Witness ==
    /\ app_main_pc = "rollback_guard"
    /\ wifi_connected_bit
    /\ wifi_state = "Retrying"
    /\ s_retry_num = 2

\* C30: between two address assignments, and from the start to the first one, the
\* handler answers disconnects with at most MAXIMUM_RETRY calls of
\* esp_wifi_connect, besides the one call it makes for the start event.
C30_ReconnectsCapped ==
    /\ reconnects_since_ip <= MAXIMUM_RETRY
    /\ ~wifi_connected_bit => connect_attempts <= MAXIMUM_RETRY + 1
    /\ reconnects_since_ip <= disconnects_since_ip

C30_Witness ==
    /\ reconnects_since_ip = MAXIMUM_RETRY
    /\ disconnects_since_ip = MAXIMUM_RETRY + 1
    /\ connect_attempts = MAXIMUM_RETRY + 1
    /\ ~wifi_connected_bit

\* the transport operations that take the handle esp_https_ota_begin opens
HandleOperations == {"esp_https_ota_get_img_desc", "esp_https_ota_perform",
                     "esp_https_ota_get_image_len_read",
                     "esp_https_ota_is_complete_data_received", "esp_https_ota_finish",
                     "esp_https_ota_abort"}

\* C31: a session whose esp_https_ota_begin failed is over at once: the handle
\* stays NULL, no operation on the handle is ever called, and the task's only
\* further step is to request red and delete itself.
C31_BeginFailureIsTerminal ==
    \A t \in Tasks :
        Returned(t, "esp_https_ota_begin", ESP_FAIL)
            => /\ pc[t] \in {"begin_failed", "deleted"}
               /\ https_ota_handle[t] = NULL
               /\ \A fn \in HandleOperations : ~Called(t, fn)
               /\ ~Called(t, "esp_restart")
               /\ pc[t] = "deleted"
                    => /\ calls[t][Len(calls[t]) - 1][1] = "led_set_color_red"
                       /\ calls[t][Len(calls[t])][1] = "vTaskDelete"
                       /\ calls[t][Len(calls[t]) - 2][1] = "esp_https_ota_begin"

C31_Witness ==
    \E t \in Tasks :
        /\ Returned(t, "esp_https_ota_begin", ESP_FAIL)
        /\ pc[t] = "deleted"
        /\ CountCalls(t, "vTaskDelete") = 1

\* the positions of the call log of t that hold a call of fn
CallsOf(t, fn) == {i \in 1..Len(calls[t]) : calls[t][i][1] = fn}

\* the call of fn that returned r is in the log of t before position i
ReturnedBefore(t, i, fn, r) == \E j \in 1..(i - 1) : calls[t][j] = <<fn, r>>

\* C32: the phases of a session come in order: the descriptor is fetched only
\* after a successful begin, the header is validated only right after a
\* successful fetch, a download step is taken only after a passed validation,
\* and esp_https_ota_finish is called only right after the completeness check
\* returned true, which comes right after the step that left the download
\* loop; after a failed fetch there is neither a validation nor a download step.
C32_PhaseOrder ==
    \A t \in Tasks :
        /\ \A i \in CallsOf(t, "esp_https_ota_get_img_desc") :
               i > 1 /\ calls[t][i - 1] = <<"esp_https_ota_begin", ESP_OK>>
        /\ \A i \in CallsOf(t, "ota_validate_image_header") :
               i > 1 /\ calls[t][i - 1] = <<"esp_https_ota_get_img_desc", ESP_OK>>
        /\ \A i \in CallsOf(t, "esp_https_ota_perform") :
               ReturnedBefore(t, i, "ota_validate_image_header", ESP_OK)
        /\ \A i \in CallsOf(t, "esp_https_ota_is_complete_data_received") :
               /\ i > 1
               /\ calls[t][i - 1][1] = "esp_https_ota_perform"
               /\ calls[t][i - 1][2] # ESP_ERR_HTTPS_OTA_IN_PROGRESS
        /\ \A i \in CallsOf(t, "esp_https_ota_finish") :
               /\ i > 2
               /\ calls[t][i - 1] = <<"esp_https_ota_is_complete_data_received", "true">>
               /\ calls[t][i - 2][1] = "esp_https_ota_perform"
        /\ Returned(t, "esp_https_ota_get_img_desc", ESP_FAIL)
             => /\ ~Called(t, "ota_validate_image_header")
                /\ ~Called(t, "esp_https_ota_perform")
                /\ ~Called(t, "esp_https_ota_finish")

C32_Witness ==
    \E t \in Tasks :
        /\ Called(t, "esp_https_ota_finish")
        /\ Returned(t, "esp_https_ota_perform", ESP_ERR_HTTPS_OTA_IN_PROGRESS)
        /\ Returned(t, "ota_validate_image_header", ESP_OK)

\* the calls of t that request a status colour
ColourCalls == {"led_set_color_red", "led_set_color_green", "led_set_color_blue",
                "led_set_color_orange", "led_clear"}

\* C33: every esp_restart of a session comes right after the 2000 ms dwell,
\* which comes right after the task's request for green: the task requests no
\* other colour between green and the restart, and the restart is taken only
\* after a transfer and a finish that both returned ESP_OK.
C33_GreenHeldBeforeRestart ==
    \A t \in Tasks :
        \A i \in CallsOf(t, "esp_restart") :
            /\ i > 3
            /\ calls[t][i - 1] = <<"vTaskDelay", "2000 ms">>
            /\ calls[t][i - 2][1] = "led_set_color_green"
            /\ calls[t][i - 3] = <<"esp_https_ota_finish", ESP_OK>>
            /\ \A j \in (i - 1)..i : calls[t][j][1] \notin ColourCalls
            /\ system = "restarted"

C33_Witness ==
    \E t \in Tasks : Called(t, "esp_restart") /\ pc[t] = "restarted"

\* C34: wifi_init_sta returns only when the handler of the address assignment
\* has already requested green.  event_handler calls xEventGroupSetBits
\* before led_set_color_green, so the waiter can return in between and the
\* green is then written over what the code after the return has shown.
C34_GreenBeforeReturn ==
    [][(app_main_pc = "wifi_wait" /\ app_main_pc' = "rollback_guard")
          => wifi_handler_pc = "idle"]_vars

\* the results of the calls of ota_validate_image_header made by t
ValidateResults(t) ==
    {calls[t][i][2] : i \in CallsOf(t, "ota_validate_image_header")}

\* C35: ota_validate_image_header is deterministic: all the calls made with
\* the same descriptor, on the same running image and floor, return the same
\* result, also when the description of the running partition cannot be read.
C35_ValidateDeterministic ==
    \A t, u \in Tasks :
        app_desc[t] = app_desc[u]
            => Cardinality(ValidateResults(t) \cup ValidateResults(u)) <= 1

\* what C36 says ota_validate_image_header accepts
AcceptedByC36(cfg, new_app_info, running, floor) ==
    /\ cfg.SKIP_VERSION_CHECK \/ new_app_info.version # running
    /\ ~cfg.ANTI_ROLLBACK \/ new_app_info.secure_version >= floor

\* C36: for a non-null descriptor ota_validate_image_header returns ESP_OK if
\* and only if (the skip flag is on or the remote version differs from the
\* running version) and (no floor is configured or secure_version >= floor).
C36_AcceptsExactlyValid ==
    \A t \in Tasks :
        \A r \in ValidateResults(t) :
            (r = ESP_OK) <=> AcceptedByC36(config, app_desc[t], running_version,
                                           hw_sec_version)

\* C37: WIFI_CONNECTED_BIT is sticky: within a boot no step clears it once an
\* address assignment has set it, whatever is handled afterwards (a loss of
\* the link, the retries, the final failure with red), and a wait on it then
\* returns without blocking.
C37_ConnectedBitSticky ==
    [][(wifi_connected_bit /\ boots' = boots)
          => /\ wifi_connected_bit'
             /\ (system = "running" /\ app_main_pc = "wifi_wait")
                   => ENABLED wifi_init_sta_wait]_vars

C37_Witness ==
    /\ wifi_connected_bit
    /\ wifi_state = "Failed"
    /\ s_retry_num = MAXIMUM_RETRY
    /\ led = led_set_color_red
    /\ wifi_event_queue = << >>

\* C38: only an address assignment gives the retries back.  Handling the start
\* event makes one connect attempt and leaves s_retry_num as it is; handling a
\* disconnect at s_retry_num = MAXIMUM_RETRY makes no attempt, leaves
\* s_retry_num as it is and ends in Failed with red; s_retry_num goes down only
\* when IP_EVENT_STA_GOT_IP is handled (or the device is reset).  So a station
\* started again after Failed gets one attempt, and its failure is Failed again.
C38_BudgetRestoredOnlyByGotIp ==
    /\ [][WifiHandles("WIFI_EVENT_STA_START")
             => /\ connect_attempts' = connect_attempts + 1
                /\ s_retry_num' = s_retry_num]_vars
    /\ [][(WifiHandles("WIFI_EVENT_STA_DISCONNECTED") /\ s_retry_num = MAXIMUM_RETRY)
             => /\ connect_attempts' = connect_attempts
                /\ s_retry_num' = s_retry_num
                /\ wifi_state' = "Failed"
                /\ led' = led_set_color_red]_vars
    /\ [][s_retry_num' < s_retry_num
             => (WifiHandles("IP_EVENT_STA_GOT_IP") \/ DeviceReset)]_vars

\* the station was started again after Failed: its one attempt has failed and
\* the handler is back in Failed without a further attempt
C38_Witness ==
    /\ wifi_state = "Failed"
    /\ wifi_failures = 2
    /\ connect_attempts = MAXIMUM_RETRY + 2
    /\ s_retry_num = MAXIMUM_RETRY
    /\ ~wifi_connected_bit

\* the call of led_strip_custom.c that stands for a call of the modular code
CustomCall(fn) ==
    CASE fn = "led_set_color_red" -> "set_all_leds(RED)"
      [] fn = "led_set_color_green" -> "set_all_leds(GREEN)"
      [] fn = "ota_validate_image_header" -> "validate_image_header"
      [] OTHER -> fn

\* what event_handler of wifi_manager.c and ota_event_handler of ota_manager.c do
\* for an event, in the shape of custom_event_handler and custom_ota_event_handler
ModularEventHandler(id, n, bit, shown) ==
    [connects |-> WifiHandlerConnects(id, n), s_retry_num |-> WifiHandlerRetryNum(id, n),
     bit |-> WifiHandlerBit(id, bit), led |-> WifiHandlerLed(id, n, shown)]
ModularOtaEventHandler(id, count, shown) ==
    [count |-> HandlerCount(id, count), led |-> HandlerLed(id, count, shown)]

\* C39: the monolithic and the modular implementation are equivalent: given the
\* same outcomes by the transport, advanced_ota_task and ota_task make the same
\* calls in the same order (transport calls, LED requests, validation, delay,
\* restart and task deletion) with the same results, and the two pairs of
\* event handlers do the same for every event, counter and flag.
C39_ImplementationsEquivalent ==
    LET m == calls[ModularTask]
        c == calls[MonolithicTask]
    IN /\ \A i \in 1..Len(m) :
              i <= Len(c) => c[i] = <<CustomCall(m[i][1]), m[i][2]>>
       /\ \A id \in WifiEvents, n \in 0..MAXIMUM_RETRY, bit \in BOOLEAN :
              custom_event_handler(id, n, bit, led) = ModularEventHandler(id, n, bit, led)
       /\ \A id \in OtaEvents, count \in 0..MaxWrites :
              custom_ota_event_handler(id, count, led)
                  = ModularOtaEventHandler(id, count, led)

====
